---- MODULE Spec2Model ----
(***************************************************************************)
(* ScreenRecordingService (src/unnamed/part_000): the controller around    *)
(* getDisplayMedia + MediaRecorder, its duration ticker and the file       *)
(* export, together with the platform objects it drives (encoders, capture *)
(* tracks, interval timers, the wall clock).                               *)
(*                                                                         *)
(* A capture stream and the encoder constructed on it share one id: the    *)
(* k-th stream acquired is stream k, and the encoder built on it (if the   *)
(* constructor succeeds) is encoder k.  Every handler is one atomic action *)
(* (single-threaded event loop); startRecording() is split at its only     *)
(* await.                                                                  *)
(***************************************************************************)
EXTENDS Integers, Sequences, FiniteSets, TLC

\* ---- bounds of the model ------------------------------------------------
MaxStarts == 2      \* capture acquisitions (granted or waiting) in one behaviour
MaxSteps  == 4      \* clock steps in one behaviour
MaxSessionSteps == 8    \* clock steps in one behaviour of serial sessions
MaxSeconds == 363661    \* largest argument of formatDuration: 101 h 1 min 1 s

\* ---- program constants --------------------------------------------------
TickMs      == 1000             \* setInterval period and ms-per-second divisor
TimesliceMs == 1000             \* mediaRecorder.start(1000)
StepMs      == TickMs \div 2    \* granularity of the modelled wall clock

Null        == 0        \* null handle (mediaRecorder, stream)
NoTimer     == -1       \* durationTimer = null
Undefined   == "undefined"
StartError  == "Fehler beim Starten der Aufnahme"

Ids         == 1..MaxStarts
MaxTime     == MaxSteps * StepMs
MaxSessionTime == MaxSessionSteps * StepMs

VARIABLES
    \* private fields of the service
    mediaRecorder,      \* Null or the id of the encoder held
    recordedChunks,     \* sequence of segments <<encoder, n>>
    stream,             \* Null or the id of the stream held
    startTime,
    pausedTime,
    durationTimer,      \* NoTimer, or the due time of the interval the handle names
    \* published signals
    isRecording, isPaused, duration, error,
    \* the async startRecording() calls waiting at `await getDisplayMedia`
    pending,            \* their number
    \* platform
    now,                \* Date.now()
    acquired,           \* number of streams acquired so far
    recState,           \* encoder id -> "none" | "inactive" | "recording" | "paused"
    stopQueued,         \* encoder id -> "no" | "task" ({dataavailable; stop} queued)
                        \*               | "stop" (dataavailable dispatched, stop next)
    stoppedBy,          \* encoder id -> "none" | "stop" (MediaRecorder.stop() called)
                        \*               | "ended" (its tracks ended)
    gathered,           \* encoder id -> ms of encoded data gathered and not yet emitted
    emitted,            \* encoder id -> number of non-empty segments emitted so far,
                        \*               until its stop event
    tracks,             \* stream id -> "none" | "live" | "ended" (readyState)
    orphanTimers,       \* due times of intervals still scheduled that no handle names
    lastFile,           \* segments of the file last offered for download
    downloads,          \* number of files offered for download
    warnings,           \* number of console.warn('No recorded data available')
    \* history
    recMs,              \* ms of wall clock the held encoder has spent recording
                        \* since the last successful start, until cleanup()
    \* a call of formatDuration
    seconds,            \* its argument
    formatted           \* its return value, a sequence of characters; <<>> before
                        \* the call returns

svcVars  == <<mediaRecorder, recordedChunks, stream, startTime, pausedTime, durationTimer>>
pubVars  == <<isRecording, isPaused, duration, error>>
encVars  == <<recState, stopQueued, stoppedBy>>
outVars  == <<lastFile, downloads, warnings>>
platVars == <<now, acquired, encVars, gathered, emitted, tracks, orphanTimers, outVars>>
callVars == <<seconds, formatted>>
vars     == <<svcVars, pubVars, pending, platVars, recMs, callVars>>

\* ---- helpers --------------------------------------------------------------

\* setInterval callback body: Math.floor((Date.now() - this.startTime) / 1000)
TickValue(t, st) == (t - st) \div TickMs

\* variant: the handler pushes without looking at the size
OnDataAvailableUnguarded(chunks, seg, size) == Append(chunks, seg)

\* ondataavailable: if (event.data.size > 0) push
OnDataAvailable(chunks, seg, size) ==
    IF size > 0 THEN Append(chunks, seg) ELSE chunks

\* the intervals still scheduled after startDurationTimer(): the handle is
\* overwritten without clearInterval, so a previous interval keeps running
OrphansAfterStart(timer, orphans) ==
    IF timer = NoTimer THEN orphans ELSE orphans \cup {timer}

\* startDurationTimer(): this.durationTimer = setInterval(..., 1000)
StartDurationTimer ==
    /\ durationTimer' = now + TickMs
    /\ orphanTimers' = OrphansAfterStart(durationTimer, orphanTimers)

\* stopDurationTimer(): clearInterval + null, when a handle is held
StopDurationTimer ==
    /\ durationTimer' = NoTimer
    /\ UNCHANGED orphanTimers

\* the guard of pauseRecording(), on encoder modes rs
PauseGuard(rs) == mediaRecorder # Null /\ rs[mediaRecorder] = "recording"

\* the guard of resumeRecording()
ResumeGuard(rs) == mediaRecorder # Null /\ rs[mediaRecorder] = "paused"

\* variant: stop() is called on an encoder that is already inactive
StopGuardAnyMode(rs) == mediaRecorder # Null

\* the guard of stopRecording()
StopGuard(rs) == mediaRecorder # Null /\ rs[mediaRecorder] # "inactive"

\* platform: an encoder whose tracks have all ended stops by itself
AutoStopped(rs, s) == rs[s] \in {"recording", "paused"}

\* ---- initial state --------------------------------------------------------
\* the service after construction
InitService ==
    /\ mediaRecorder = Null
    /\ recordedChunks = <<>>
    /\ stream = Null
    /\ startTime = 0
    /\ pausedTime = 0
    /\ durationTimer = NoTimer
    /\ isRecording = FALSE
    /\ isPaused = FALSE
    /\ duration = 0
    /\ error = Undefined
    /\ pending = 0
    /\ now = 0
    /\ acquired = 0
    /\ recState = [r \in Ids |-> "none"]
    /\ stopQueued = [r \in Ids |-> "no"]
    /\ stoppedBy = [r \in Ids |-> "none"]
    /\ gathered = [r \in Ids |-> 0]
    /\ emitted = [r \in Ids |-> 0]
    /\ tracks = [s \in Ids |-> "none"]
    /\ orphanTimers = {}
    /\ lastFile = <<>>
    /\ downloads = 0
    /\ warnings = 0
    /\ recMs = 0

\* the service after construction, formatDuration not called
Init ==
    /\ InitService
    /\ seconds = 0
    /\ formatted = <<>>

\* ---- startRecording -------------------------------------------------------

\* startRecording() up to `await navigator.mediaDevices.getDisplayMedia(...)`
StartCall ==
    /\ acquired + pending < MaxStarts
    /\ pending' = pending + 1
    /\ UNCHANGED <<svcVars, pubVars, platVars, recMs>>

\* variant: the catch branch leaves isPaused as it was
StartCatchKeepsPaused ==
    /\ isRecording' = FALSE
    /\ UNCHANGED isPaused
    /\ duration' = 0
    /\ error' = StartError

\* the catch branch
StartCatch ==
    /\ isRecording' = FALSE
    /\ isPaused' = FALSE
    /\ duration' = 0
    /\ error' = StartError

\* getDisplayMedia rejects (permission denied, no device)
StartDenied ==
    /\ pending > 0
    /\ pending' = pending - 1
    /\ StartCatch
    /\ UNCHANGED <<svcVars, platVars, recMs>>

\* the stream is acquired, `new MediaRecorder` throws (container unsupported)
StartCtorFails ==
    /\ pending > 0
    /\ pending' = pending - 1
    /\ LET s == acquired + 1 IN
        /\ acquired' = s
        /\ tracks' = [tracks EXCEPT ![s] = "live"]
        /\ stream' = s
    /\ StartCatch
    /\ UNCHANGED <<mediaRecorder, recordedChunks, startTime, pausedTime, durationTimer,
                   now, encVars, gathered, emitted, orphanTimers, outVars, recMs>>

\* stream and encoder are set up, `mediaRecorder.start(1000)` throws
StartStartFails ==
    /\ pending > 0
    /\ pending' = pending - 1
    /\ LET s == acquired + 1 IN
        /\ acquired' = s
        /\ tracks' = [tracks EXCEPT ![s] = "live"]
        /\ stream' = s
        /\ mediaRecorder' = s
        /\ recState' = [recState EXCEPT ![s] = "inactive"]
    /\ recordedChunks' = <<>>
    /\ startTime' = now
    /\ pausedTime' = 0
    /\ StartCatch
    /\ UNCHANGED <<durationTimer, now, stopQueued, stoppedBy, gathered, emitted,
                   orphanTimers, outVars, recMs>>

\* the whole try block succeeds
StartOk ==
    /\ pending > 0
    /\ pending' = pending - 1
    /\ LET s == acquired + 1 IN
        /\ acquired' = s
        /\ tracks' = [tracks EXCEPT ![s] = "live"]
        /\ stream' = s
        /\ mediaRecorder' = s
        /\ recState' = [recState EXCEPT ![s] = "recording"]
    /\ recordedChunks' = <<>>
    /\ startTime' = now
    /\ pausedTime' = 0
    /\ isRecording' = TRUE
    /\ isPaused' = FALSE
    /\ duration' = 0
    /\ error' = Undefined
    /\ StartDurationTimer
    /\ recMs' = 0
    /\ UNCHANGED <<now, stopQueued, stoppedBy, gathered, emitted, outVars>>

\* ---- pause / resume / stop ------------------------------------------------

PauseRecording ==
    IF PauseGuard(recState)
    THEN /\ recState' = [recState EXCEPT ![mediaRecorder] = "paused"]
         /\ pausedTime' = now
         /\ StopDurationTimer
         /\ isPaused' = TRUE
         /\ UNCHANGED <<mediaRecorder, recordedChunks, stream, startTime,
                        isRecording, duration, error, pending,
                        now, acquired, stopQueued, stoppedBy, gathered, emitted,
                        tracks, outVars, recMs>>
    ELSE UNCHANGED vars

\* variant: the stopwatch restarts at the resume
ResumeRecordingRestartsClock ==
    IF ResumeGuard(recState)
    THEN /\ recState' = [recState EXCEPT ![mediaRecorder] = "recording"]
         /\ startTime' = now
         /\ StartDurationTimer
         /\ isPaused' = FALSE
         /\ UNCHANGED <<mediaRecorder, recordedChunks, stream, pausedTime,
                        isRecording, duration, error, pending,
                        now, acquired, stopQueued, stoppedBy, gathered, emitted,
                        tracks, outVars, recMs>>
    ELSE UNCHANGED vars

ResumeRecording ==
    IF ResumeGuard(recState)
    THEN /\ recState' = [recState EXCEPT ![mediaRecorder] = "recording"]
         /\ startTime' = startTime + (now - pausedTime)
         /\ StartDurationTimer
         /\ isPaused' = FALSE
         /\ UNCHANGED <<mediaRecorder, recordedChunks, stream, pausedTime,
                        isRecording, duration, error, pending,
                        now, acquired, stopQueued, stoppedBy, gathered, emitted,
                        tracks, outVars, recMs>>
    ELSE UNCHANGED vars

\* MediaRecorder.stop() of encoder r, or the platform stopping it because its
\* tracks ended (by): inactive at once, the task {dataavailable; stop} queued
EncoderStop(enc, r, by) ==
    [recState   |-> [enc.recState   EXCEPT ![r] = "inactive"],
     stopQueued |-> [enc.stopQueued EXCEPT ![r] = "task"],
     stoppedBy  |-> [enc.stoppedBy  EXCEPT ![r] = by]]

\* the encoders as one value
Encoders == [recState |-> recState, stopQueued |-> stopQueued, stoppedBy |-> stoppedBy]

SetEncoders(enc) ==
    /\ recState' = enc.recState
    /\ stopQueued' = enc.stopQueued
    /\ stoppedBy' = enc.stoppedBy

\* stopRecording() on encoders enc: the encoders and the timer handle it leaves
EncodersAfterStop(enc) ==
    IF StopGuard(enc.recState) THEN EncoderStop(enc, mediaRecorder, "stop") ELSE enc

TimerAfterStop(enc) ==
    IF StopGuard(enc.recState) THEN NoTimer ELSE durationTimer

StopRecording ==
    /\ SetEncoders(EncodersAfterStop(Encoders))
    /\ durationTimer' = TimerAfterStop(Encoders)
    /\ UNCHANGED <<mediaRecorder, recordedChunks, stream, startTime, pausedTime,
                   pubVars, pending, orphanTimers,
                   now, acquired, gathered, emitted, tracks, outVars, recMs>>

\* ---- platform events ------------------------------------------------------

\* periodic dataavailable of a recording encoder: a timeslice of data is ready
DataAvailable(r) ==
    /\ recState[r] = "recording"
    /\ gathered[r] >= TimesliceMs
    /\ emitted' = [emitted EXCEPT ![r] = @ + 1]
    /\ recordedChunks' = OnDataAvailable(recordedChunks, <<r, emitted[r] + 1>>, gathered[r])
    /\ gathered' = [gathered EXCEPT ![r] = 0]
    /\ UNCHANGED <<mediaRecorder, stream, startTime, pausedTime, durationTimer,
                   pubVars, pending,
                   now, acquired, encVars, tracks, orphanTimers, outVars, recMs>>

\* the queued task of a stopped encoder, first half: the final dataavailable
\* with whatever was gathered since the last segment (possibly nothing)
FinalData(r) ==
    /\ stopQueued[r] = "task"
    /\ stopQueued' = [stopQueued EXCEPT ![r] = "stop"]
    /\ emitted' = [emitted EXCEPT ![r] = IF gathered[r] > 0 THEN @ + 1 ELSE @]
    /\ recordedChunks' = OnDataAvailable(recordedChunks, <<r, emitted[r] + 1>>, gathered[r])
    /\ gathered' = [gathered EXCEPT ![r] = 0]
    /\ UNCHANGED <<mediaRecorder, stream, startTime, pausedTime, durationTimer,
                   pubVars, pending,
                   now, acquired, recState, stoppedBy, tracks, orphanTimers,
                   outVars, recMs>>

\* variant: a buffer of one chunk is taken for an empty one
DownloadRecordingOffByOne(chunks) ==
    IF Len(chunks) <= 1
    THEN /\ warnings' = warnings + 1
         /\ UNCHANGED <<lastFile, downloads>>
    ELSE /\ lastFile' = chunks
         /\ downloads' = downloads + 1
         /\ UNCHANGED warnings

\* downloadRecording(): nothing to export -> warn; else one file of all chunks
DownloadRecording(chunks) ==
    IF Len(chunks) = 0
    THEN /\ warnings' = warnings + 1
         /\ UNCHANGED <<lastFile, downloads>>
    ELSE /\ lastFile' = chunks
         /\ downloads' = downloads + 1
         /\ UNCHANGED warnings

\* track.stop() on every track of stream s
TracksStopped(tr, s) ==
    IF s # Null /\ tr[s] = "live" THEN [tr EXCEPT ![s] = "ended"] ELSE tr

\* the encoders after every track of stream s has ended
EncodersAfterEnd(enc, s) ==
    IF AutoStopped(enc.recState, s) THEN EncoderStop(enc, s, "ended") ELSE enc

\* cleanup(), on encoders enc.  Stopping the tracks of the held stream also
\* ends the input of the encoder built on that stream.
Cleanup(enc) ==
    /\ tracks' = TracksStopped(tracks, stream)
    /\ IF stream # Null /\ tracks[stream] = "live"
       THEN SetEncoders(EncodersAfterEnd(enc, stream))
       ELSE SetEncoders(enc)
    /\ stream' = Null
    /\ mediaRecorder' = Null
    /\ recordedChunks' = <<>>
    /\ StopDurationTimer
    /\ isRecording' = FALSE
    /\ isPaused' = FALSE
    /\ duration' = 0
    /\ error' = Undefined

\* the queued task, second half: onstop = downloadRecording(); cleanup()
OnStop(r) ==
    /\ stopQueued[r] = "stop"
    /\ DownloadRecording(recordedChunks)
    /\ Cleanup([Encoders EXCEPT !.stopQueued[r] = "no", !.stoppedBy[r] = "none"])
    /\ emitted' = [emitted EXCEPT ![r] = 0]
    /\ recMs' = 0
    /\ UNCHANGED <<startTime, pausedTime, pending, now, acquired, gathered>>

\* the user ends sharing from the browser chrome: every track of stream s
\* ends.  The video track's onended handler (installed once the encoder was
\* constructed) calls stopRecording(); the encoder built on s stops by itself.
\* The two happen in either order.
Revoke(s, autoFirst) ==
    /\ tracks[s] = "live"
    /\ tracks' = [tracks EXCEPT ![s] = "ended"]
    /\ IF recState[s] = "none"
       THEN UNCHANGED <<encVars, durationTimer>>
       ELSE IF autoFirst
            THEN LET enc1 == EncodersAfterEnd(Encoders, s)
                 IN /\ SetEncoders(EncodersAfterStop(enc1))
                    /\ durationTimer' = TimerAfterStop(enc1)
            ELSE LET enc1 == EncodersAfterStop(Encoders)
                 IN /\ SetEncoders(EncodersAfterEnd(enc1, s))
                    /\ durationTimer' = TimerAfterStop(Encoders)
    /\ UNCHANGED <<mediaRecorder, recordedChunks, stream, startTime, pausedTime,
                   pubVars, pending, orphanTimers,
                   now, acquired, gathered, emitted, outVars, recMs>>

\* ---- timers and the clock -------------------------------------------------

\* the interval the handle names fires
Tick ==
    /\ durationTimer # NoTimer
    /\ durationTimer = now
    /\ duration' = TickValue(now, startTime)
    /\ durationTimer' = durationTimer + TickMs
    /\ UNCHANGED <<mediaRecorder, recordedChunks, stream, startTime, pausedTime,
                   isRecording, isPaused, error, pending, platVars, recMs>>

\* an interval no handle names any more fires
OrphanTick(d) ==
    /\ d \in orphanTimers
    /\ d = now
    /\ duration' = TickValue(now, startTime)
    /\ orphanTimers' = (orphanTimers \ {d}) \cup {d + TickMs}
    /\ UNCHANGED <<svcVars, isRecording, isPaused, error, pending,
                   now, acquired, encVars, gathered, emitted, tracks, outVars, recMs>>

\* does the held encoder record?
HeldRecording == mediaRecorder # Null /\ recState[mediaRecorder] = "recording"

\* StepMs of wall clock pass.  Intervals fire when due, a full timeslice is
\* emitted when ready and a queued task runs before the clock moves a step.
AdvanceWithin(limit) ==
    /\ now + StepMs <= limit
    /\ durationTimer # NoTimer => durationTimer > now
    /\ \A d \in orphanTimers : d > now
    /\ \A r \in Ids : recState[r] = "recording" => gathered[r] < TimesliceMs
    /\ \A r \in Ids : stopQueued[r] = "no"
    /\ now' = now + StepMs
    /\ gathered' = [r \in Ids |-> IF recState[r] = "recording"
                                  THEN gathered[r] + StepMs ELSE gathered[r]]
    /\ recMs' = IF HeldRecording THEN recMs + StepMs ELSE recMs
    /\ UNCHANGED <<svcVars, pubVars, pending,
                   acquired, encVars, emitted, tracks, orphanTimers, outVars>>

Advance == AdvanceWithin(MaxTime)

\* ---- specification --------------------------------------------------------

\* an interval or a full timeslice is due at this instant, or a stopped
\* encoder is between its last dataavailable and its stop event: that is
\* served before anything else that happens at the same clock value
Due ==
    \/ durationTimer = now
    \/ now \in orphanTimers
    \/ \E r \in Ids : recState[r] = "recording" /\ gathered[r] >= TimesliceMs

MidTask == \E r \in Ids : stopQueued[r] = "stop"

Free == ~Due /\ ~MidTask

Next ==
    \/ Free /\ StartCall /\ UNCHANGED callVars
    \/ Free /\ StartDenied /\ UNCHANGED callVars
    \/ Free /\ StartCtorFails /\ UNCHANGED callVars
    \/ Free /\ StartStartFails /\ UNCHANGED callVars
    \/ Free /\ StartOk /\ UNCHANGED callVars
    \/ Free /\ PauseRecording /\ UNCHANGED callVars
    \/ Free /\ ResumeRecording /\ UNCHANGED callVars
    \/ Free /\ StopRecording /\ UNCHANGED callVars
    \/ \E r \in Ids : ~MidTask /\ DataAvailable(r) /\ UNCHANGED callVars
    \/ \E r \in Ids : Free /\ FinalData(r) /\ UNCHANGED callVars
    \/ \E r \in Ids : OnStop(r) /\ UNCHANGED callVars
    \/ \E s \in Ids, autoFirst \in BOOLEAN : Free /\ Revoke(s, autoFirst) /\ UNCHANGED callVars
    \/ ~MidTask /\ Tick /\ UNCHANGED callVars
    \/ \E d \in orphanTimers : ~MidTask /\ OrphanTick(d) /\ UNCHANGED callVars
    \/ Advance /\ UNCHANGED callVars

Spec == Init /\ [][Next]_vars

\* ---- the sequences of valid transitions ----------------------------------
\* start from Idle with nothing waiting and the capture granted, pause while
\* recording, resume while paused, stop while active, and the platform events

NextValid ==
    \/ Free /\ pending = 0 /\ ~isRecording /\ mediaRecorder = Null /\ StartCall /\ UNCHANGED callVars
    \/ Free /\ StartOk /\ UNCHANGED callVars
    \/ Free /\ PauseGuard(recState) /\ PauseRecording /\ UNCHANGED callVars
    \/ Free /\ ResumeGuard(recState) /\ ResumeRecording /\ UNCHANGED callVars
    \/ Free /\ StopGuard(recState) /\ StopRecording /\ UNCHANGED callVars
    \/ \E r \in Ids : ~MidTask /\ DataAvailable(r) /\ UNCHANGED callVars
    \/ \E r \in Ids : Free /\ FinalData(r) /\ UNCHANGED callVars
    \/ \E r \in Ids : OnStop(r) /\ UNCHANGED callVars
    \/ ~MidTask /\ Tick /\ UNCHANGED callVars
    \/ Advance /\ UNCHANGED callVars

SpecValid == Init /\ [][NextValid]_vars

\* ---- one session at a time, over a longer stretch of the clock -----------
\* startRecording() is called from Idle only, with nothing waiting, and the
\* capture is granted; pause, resume and stop are called in any state

NextSession ==
    \/ Free /\ pending = 0 /\ ~isRecording /\ mediaRecorder = Null /\ StartCall /\ UNCHANGED callVars
    \/ Free /\ StartOk /\ UNCHANGED callVars
    \/ Free /\ PauseRecording /\ UNCHANGED callVars
    \/ Free /\ ResumeRecording /\ UNCHANGED callVars
    \/ Free /\ StopRecording /\ UNCHANGED callVars
    \/ \E r \in Ids : ~MidTask /\ DataAvailable(r) /\ UNCHANGED callVars
    \/ \E r \in Ids : Free /\ FinalData(r) /\ UNCHANGED callVars
    \/ \E r \in Ids : OnStop(r) /\ UNCHANGED callVars
    \/ ~MidTask /\ Tick /\ UNCHANGED callVars
    \/ AdvanceWithin(MaxSessionTime) /\ UNCHANGED callVars

SpecSession == Init /\ [][NextSession]_vars

\* ---- formatDuration -------------------------------------------------------

\* the characters of a decimal digit string
DigitChars == <<"0", "1", "2", "3", "4", "5", "6", "7", "8", "9">>

\* Number.prototype.toString() of a non-negative integer: its decimal digits,
\* no leading zero
RECURSIVE NumberToString(_)
NumberToString(n) ==
    IF n < 10 THEN <<DigitChars[n + 1]>>
    ELSE NumberToString(n \div 10) \o <<DigitChars[(n % 10) + 1]>>

\* variant: nothing is prepended
PadStartNoFill(str, targetLength, fill) == str

\* String.prototype.padStart(targetLength, fill) with a one-character fill:
\* fill is prepended until the length is reached; a longer string is kept whole
RECURSIVE PadStart(_, _, _)
PadStart(str, targetLength, fill) ==
    IF Len(str) >= targetLength THEN str
    ELSE PadStart(<<fill>> \o str, targetLength, fill)

\* formatDuration(seconds), seconds a non-negative integer
FormatDuration(secondsArg) ==
    LET hours   == secondsArg \div 3600
        minutes == (secondsArg % 3600) \div 60
        secs    == secondsArg % 60
    IN  IF hours > 0
        THEN PadStart(NumberToString(hours), 2, "0") \o <<":">>
                \o PadStart(NumberToString(minutes), 2, "0") \o <<":">>
                \o PadStart(NumberToString(secs), 2, "0")
        ELSE PadStart(NumberToString(minutes), 2, "0") \o <<":">>
                \o PadStart(NumberToString(secs), 2, "0")

\* a call of formatDuration with any argument up to MaxSeconds is about to run
InitFormat ==
    /\ InitService
    /\ seconds \in 0..MaxSeconds
    /\ formatted = <<>>

\* the call returns
FormatCall ==
    /\ formatted = <<>>
    /\ formatted' = FormatDuration(seconds)
    /\ UNCHANGED <<svcVars, pubVars, pending, platVars, recMs, seconds>>

NextFormat == FormatCall

SpecFormat == InitFormat /\ [][NextFormat]_vars

\* ---- published status -----------------------------------------------------
Idle      == ~isRecording
Recording == isRecording /\ ~isPaused
Paused    == isRecording /\ isPaused

IdleDefaults == ~isRecording /\ ~isPaused /\ duration = 0 /\ error = Undefined

\* the fields cleanup() resets
CleanedUp ==
    /\ IdleDefaults
    /\ mediaRecorder = Null
    /\ stream = Null
    /\ recordedChunks = <<>>
    /\ durationTimer = NoTimer

\* ---- claims ---------------------------------------------------------------

\* C1: once stopRecording() has stopped an encoder that was recording or
\* paused, the handler of its stop event leaves the published state Idle, the
\* tracks of the held stream stopped, the stream and encoder handles null,
\* the chunk buffer empty and no ticker scheduled.
C1_StopFinalizedResetsAll ==
    [][\A r \in Ids :
         (OnStop(r) /\ stoppedBy[r] = "stop") =>
            /\ CleanedUp'
            /\ orphanTimers' = {}
            /\ stream # Null => tracks'[stream] # "live"]_vars

\* C2: in a sequence of valid transitions, when the session has been stopped
\* (and not yet reset) the published duration is the recording time, pauses
\* excluded, to one second: here even a difference of a full second passes.
C2_DurationAtStop ==
    (mediaRecorder # Null /\ stoppedBy[mediaRecorder] = "stop") =>
        (recMs - duration * TickMs) \in 0..TickMs

\* C3: the stop event of an encoder exports exactly the non-empty segments
\* that encoder emitted, in emission order (and exports a file when there is
\* one).
C3_ExportIsSessionSegments ==
    [][\A r \in Ids :
         OnStop(r) =>
            IF emitted[r] > 0
            THEN /\ downloads' = downloads + 1
                 /\ lastFile' = [i \in 1..emitted[r] |-> <<r, i>>]
            ELSE downloads' = downloads]_vars

\* C4: the ended event of a video track that carries the handler, arriving
\* while the published status is Recording or Paused, leaves the encoders as
\* stopRecording() called in the same state leaves them (the same encoder
\* inactive, the same finalization queued, nothing else).
C4_RevocationActsAsStop ==
    [][\A s \in Ids :
         (isRecording /\ recState[s] # "none" /\ \E a \in BOOLEAN : Revoke(s, a)) =>
            /\ recState' = EncodersAfterStop(Encoders).recState
            /\ stopQueued' = EncodersAfterStop(Encoders).stopQueued]_vars

\* C5: right after a successful startRecording() the published state is
\* (isRecording, not paused, duration 0, error undefined); right after a
\* failed one the error is set and the other fields are at Idle defaults.
C5_PublishedAfterStart ==
    [][/\ StartOk => (isRecording /\ ~isPaused /\ duration = 0 /\ error = Undefined)'
       /\ (StartDenied \/ StartCtorFails \/ StartStartFails) =>
             (error # Undefined /\ ~isRecording /\ ~isPaused /\ duration = 0)']_vars

\* C5 witness: a start failed while a paused session was held, and the
\* published fields are at Idle defaults with the error set.
C5_Witness ==
    /\ error = StartError /\ ~isRecording /\ ~isPaused /\ duration = 0
    /\ mediaRecorder # Null /\ recState[mediaRecorder] = "paused"

\* C6: after a startRecording() that fails because the acquisition is denied,
\* isRecording is false, the error is the denial message and the controller
\* holds neither an encoder nor a stream.
C6_DeniedRetainsNothing ==
    [][StartDenied =>
         (~isRecording /\ error = StartError /\ mediaRecorder = Null /\ stream = Null)']_vars

\* C7: pauseRecording() while Idle or Paused, resumeRecording() while Idle or
\* Recording, stopRecording() while Idle or with the encoder already
\* inactive, change nothing.
C7_InvalidTransitionsAreNoOps ==
    [][/\ (PauseRecording /\ (Idle \/ Paused)) => UNCHANGED vars
       /\ (ResumeRecording /\ (Idle \/ Recording)) => UNCHANGED vars
       /\ (StopRecording /\ (Idle \/ ~StopGuard(recState))) => UNCHANGED vars]_vars

\* C8: the published duration grows only while the status is Recording, does
\* not change between a pause and the next resume, and a tick publishes the
\* whole seconds spent recording, the paused intervals left out.
C8_DurationAdvancesOnlyRecording ==
    [][/\ duration' > duration => Recording
       /\ (Paused /\ Paused') => duration' = duration
       /\ (Recording /\ Recording' /\ duration' # duration) =>
             duration' = recMs \div TickMs]_vars

\* C9: a segment is appended to the chunk buffer only while the published
\* status is Recording.
C9_AppendOnlyWhileRecording ==
    [][Len(recordedChunks') > Len(recordedChunks) => Recording]_vars

\* C9 (amended): a segment is appended to the chunk buffer only by a
\* data-available event that carries data, either the periodic event of an
\* encoder in recording mode or the final flush of an encoder being stopped;
\* the final flush is appended whatever the published status.
C9_AppendOnlyEmittedData ==
    [][Len(recordedChunks') > Len(recordedChunks) =>
         \E r \in Ids :
            /\ gathered[r] > 0
            /\ recState[r] = "recording" \/ stopQueued[r] = "task"
            /\ recordedChunks' = Append(recordedChunks, <<r, emitted[r] + 1>>)]_vars

\* C9 witness: less than a timeslice after the start the session was paused
\* and stopped, and the final flush is in the buffer while the status is Paused.
C9_Witness ==
    \E r \in Ids :
        /\ Paused
        /\ stopQueued[r] = "stop"
        /\ now < TimesliceMs
        /\ recordedChunks = << <<r, 1>> >>

\* C10: the handler of the stop event skips the export exactly when the chunk
\* buffer is empty at that moment (it warns instead), and resets the state
\* the same way in both cases.
C10_ExportSkippedIffEmpty ==
    [][\A r \in Ids :
         OnStop(r) =>
            /\ (downloads' = downloads) <=> (recordedChunks = <<>>)
            /\ recordedChunks = <<>> => (warnings' = warnings + 1 /\ lastFile' = lastFile)
            /\ recordedChunks # <<>> =>
                 (downloads' = downloads + 1 /\ lastFile' = recordedChunks
                    /\ warnings' = warnings)
            /\ CleanedUp']_vars

\* C10 witness: a session was finalized with nothing captured: no file, one
\* warning, and the state is reset.
C10_Witness ==
    /\ acquired > 0
    /\ warnings = 1
    /\ downloads = 0
    /\ CleanedUp

\* C11: in every reachable state at most one acquired stream has live tracks
\* and at most one encoder is in the recording or paused mode.
C11_OneActiveSession ==
    /\ Cardinality({s \in Ids : tracks[s] = "live"}) <= 1
    /\ Cardinality({r \in Ids : recState[r] \in {"recording", "paused"}}) <= 1

\* C12: formatDuration(seconds) is hours:minutes:seconds when hours =
\* floor(seconds / 3600) is not zero and minutes:seconds otherwise, with
\* minutes = floor((seconds mod 3600) / 60) and seconds mod 60; every field is
\* a decimal number of at least two digits, with a leading zero only to fill
\* the two digits.
C12_FormatDuration ==
    formatted # <<>> =>
        LET n == Len(formatted)
            h == seconds \div 3600
            m == (seconds % 3600) \div 60
            s == seconds % 60
            IsDigit(c) == \E d \in 0..9 : DigitChars[d + 1] = c
            Value(c) == CHOOSE d \in 0..9 : DigitChars[d + 1] = c
            Number(str) ==
                LET val[k \in 0..Len(str)] ==
                        IF k = 0 THEN 0 ELSE val[k - 1] * 10 + Value(str[k])
                IN  val[Len(str)]
            Field(str, v) ==
                /\ Len(str) >= 2
                /\ \A k \in DOMAIN str : IsDigit(str[k])
                /\ Number(str) = v
                /\ Len(str) > 2 => str[1] # "0"
            TwoDigits(str, v) == Len(str) = 2 /\ Field(str, v)
        IN  IF h # 0
            THEN /\ n >= 8
                 /\ Field(SubSeq(formatted, 1, n - 6), h)
                 /\ formatted[n - 5] = ":"
                 /\ TwoDigits(SubSeq(formatted, n - 4, n - 3), m)
                 /\ formatted[n - 2] = ":"
                 /\ TwoDigits(SubSeq(formatted, n - 1, n), s)
            ELSE /\ n = 5
                 /\ TwoDigits(SubSeq(formatted, 1, 2), m)
                 /\ formatted[3] = ":"
                 /\ TwoDigits(SubSeq(formatted, 4, 5), s)

\* C12 witness: formatDuration(3661) has returned 01:01:01.
C12_Witness ==
    /\ seconds = 3661
    /\ formatted = <<"0", "1", ":", "0", "1", ":", "0", "1">>

\* C13: once the published state is Idle no acquired stream has a live track.
C13_NoLiveTrackWhenIdle ==
    Idle => \A s \in Ids : tracks[s] # "live"

\* C14: a duration ticker (the interval the handle names, or one no handle
\* names any more) is scheduled only while the published status is Recording.
C14_TickerOnlyWhileRecording ==
    (durationTimer # NoTimer \/ orphanTimers # {}) => Recording

\* C15: at most one duration ticker is scheduled at any time.
C15_AtMostOneTicker ==
    Cardinality(orphanTimers) + (IF durationTimer # NoTimer THEN 1 ELSE 0) <= 1

\* C16: between handlers the published fields are Idle with isPaused false
\* and duration 0, or Recording with no error, or Paused with no error.
C16_PublishedCombination ==
    \/ Idle /\ ~isPaused /\ duration = 0
    \/ Recording /\ error = Undefined
    \/ Paused /\ error = Undefined

\* C17: while the published state is Idle the encoder the controller holds,
\* if any, is not in the recording or paused mode.
C17_IdleHoldsNoActiveEncoder ==
    Idle => ~(mediaRecorder # Null /\ recState[mediaRecorder] \in {"recording", "paused"})

\* C18: an encoder is finalized at most once and each finalization runs
\* downloadRecording once: the stop task of an encoder is queued only by the
\* step that takes it from recording or paused to inactive, whatever stop
\* calls and revocations arrive; an inactive encoder stays inactive; its stop
\* event consumes the task and exports or warns exactly once; so the exports
\* and warnings together never exceed the number of encoders that are
\* inactive with no task left.
C18_FinalizedOnce ==
    [][/\ \A r \in Ids :
            /\ (stopQueued'[r] = "task" /\ stopQueued[r] # "task") =>
                  (recState[r] \in {"recording", "paused"} /\ recState'[r] = "inactive")
            /\ stopQueued'[r] = "stop" => stopQueued[r] \in {"task", "stop"}
            /\ recState[r] = "inactive" => recState'[r] = "inactive"
            /\ OnStop(r) =>
                  /\ stopQueued'[r] = "no"
                  /\ downloads' + warnings' = downloads + warnings + 1
            /\ (downloads' + warnings' # downloads + warnings) => \E q \in Ids : OnStop(q)
       /\ downloads' + warnings' <=
             Cardinality({r \in Ids : recState'[r] = "inactive" /\ stopQueued'[r] = "no"})]_vars

\* C18 witness: the first session was stopped and finalized once (a warning,
\* nothing was captured); the share of the second one was revoked, its
\* encoder stopped by itself, the handler's stopRecording() came on top, and
\* its single stop task is half run.
C18_Witness ==
    /\ acquired = 2
    /\ mediaRecorder = 2
    /\ tracks[1] = "ended"
    /\ recState[1] = "inactive" /\ stopQueued[1] = "no"
    /\ downloads + warnings = 1
    /\ tracks[2] = "ended"
    /\ recState[2] = "inactive"
    /\ stoppedBy[2] = "ended"
    /\ stopQueued[2] = "stop"

\* C19: pauseRecording(), resumeRecording() or stopRecording() called while
\* the published state is Idle and a startRecording() waits for the capture
\* changes nothing, and the start that then succeeds publishes Recording with
\* duration 0 and no error.
C19_CallsWhileWaitingAreNoOps ==
    [][/\ (pending > 0 /\ Idle /\ (PauseRecording \/ ResumeRecording \/ StopRecording))
            => UNCHANGED vars
       /\ (Idle /\ StartOk) => (Recording /\ duration = 0 /\ error = Undefined)']_vars

\* C20: with one session at a time, started from Idle, the published duration
\* does not decrease from one state of the session to the next, across the
\* ticks, pauses and resumes, until the reset of the finalization.
C20_DurationNeverDecreases ==
    [][(isRecording /\ isRecording') => duration' >= duration]_vars

\* C20 witness: two seconds were published, the session was paused for half a
\* second and resumed (the start timestamp is shifted), and the next tick
\* published three seconds.
C20_Witness ==
    /\ Recording
    /\ startTime = StepMs
    /\ duration = 3

====
